---------------------------- MODULE Spec2Model ----------------------------
(***************************************************************************)
(* A model of the option editor of src/rollup/config.ts (the Vue           *)
(* single-file component that follows the rollup configuration):           *)
(* validateUrl, updateIndexes, parse, newOption, deleteOption,             *)
(* updateScript, generate, clone, reorder, updateType and the v-model      *)
(* bindings of the template.                                               *)
(*                                                                         *)
(* A JavaScript string is a sequence of one-character strings, so that     *)
(* every regular expression, JSON.parse and JSON.stringify are modelled by *)
(* what they do to the characters.  A JavaScript value is a record         *)
(* <<tag, payload>>.  Array positions given to the handlers are  *)
(* the 0-based positions of the source; sequences here are 1-based.        *)
(***************************************************************************)
EXTENDS Integers, Sequences, FiniteSets, TLC

VARIABLES
    script,      \* ref script: the text of the top textbox
    error,       \* ref error: null or the parse error message
    options,     \* ref options: null or the array of Option
    results,     \* ref results: null or the generated script
    url,         \* ref url: the text of the url input
    urlWarning,  \* ref urlWarning: null or {message, fix}
    nextUuid,    \* how many identifiers crypto.randomUUID() has handed out
    thrown,      \* whether the last handler ended with an uncaught exception
    last         \* the last handler that ran, with its arguments

vars == <<script, error, options, results, url, urlWarning, nextUuid, thrown, last>>

---------------------------------------------------------------------------
(* Bounds of the model. *)

\* The longest option list the editor is driven to.
MaxLen == 3
\* How many identifiers crypto.randomUUID() may hand out in one run.
MaxUuid == 3
\* The longest text body enumerated for a string value of the literal.
MaxBody == 3
\* How many order inputs may hold a typed number that awaits its reorder.
MaxTyped == 1

---------------------------------------------------------------------------
(* JavaScript values. *)

Undef == <<"undefined", <<>>>>
Null == <<"null", <<>>>>
Str(s) == <<"string", s>>
Num(n) == <<"number", n>>
Bool(b) == <<"boolean", b>>
Arr(l) == <<"array", l>>
\* An object is the sequence of its <<key, value>> entries, in insertion order.
Obj(e) == <<"object", e>>
\* The n-th value crypto.randomUUID() returns: never equal to any other value.
Uuid(n) == <<"uuid", n>>

\* ToBoolean: what `!x`, `x &&` and `x ? :` test.
Truthy(x) ==
    CASE x[1] = "undefined" -> FALSE
      [] x[1] = "null" -> FALSE
      [] x[1] = "string" -> x[2] # <<>>
      [] x[1] = "number" -> x[2] # 0
      [] x[1] = "boolean" -> x[2]
      [] OTHER -> TRUE

\* Whether reading a property of x throws a TypeError.
IsNullish(x) == x[1] \in {"undefined", "null"}

\* Whether x is a primitive, on which a property assignment throws in the
\* strict mode of a module.
IsPrimitive(x) == x[1] \in {"string", "number", "boolean"}

---------------------------------------------------------------------------
(* Strings. *)

RECURSIVE Concat(_)
\* The concatenation of a sequence of strings (by halves, so that the depth
\* of the evaluation stays logarithmic).
Concat(ss) ==
    IF Len(ss) = 0 THEN <<>>
    ELSE IF Len(ss) = 1 THEN ss[1]
    ELSE LET h == Len(ss) \div 2
         IN  Concat(SubSeq(ss, 1, h)) \o Concat(SubSeq(ss, h + 1, Len(ss)))

\* Whether string p occurs in s at 1-based position i.
MatchAt(s, i, p) ==
    /\ i >= 1
    /\ i + Len(p) - 1 <= Len(s)
    /\ \A k \in 1..Len(p) : s[i + k - 1] = p[k]

\* String.prototype.startsWith and endsWith.
StartsWith(s, p) == MatchAt(s, 1, p)
EndsWith(s, p) == MatchAt(s, Len(s) - Len(p) + 1, p)

\* The first position >= i at which p occurs in s, or 0: where a global
\* regular expression for the literal p finds its next match.
NextMatch(s, i, p) ==
    IF \E k \in i..Len(s) : MatchAt(s, k, p)
    THEN CHOOSE k \in i..Len(s) :
            MatchAt(s, k, p) /\ \A m \in i..(k - 1) : ~MatchAt(s, m, p)
    ELSE 0

RECURSIVE ReplaceFrom(_, _, _, _)
\* s.replace(/p/g, r) from position i on, for a pattern p that is a literal
\* string and a replacement r without $: the matches are found left to right
\* and do not overlap.
ReplaceFrom(s, i, p, r) ==
    LET k == NextMatch(s, i, p)
    IN  IF k = 0 THEN SubSeq(s, i, Len(s))
        ELSE SubSeq(s, i, k - 1) \o r \o ReplaceFrom(s, k + Len(p), p, r)

ReplaceAll(s, p, r) == ReplaceFrom(s, 1, p, r)

---------------------------------------------------------------------------
(* JSON.parse, as parse calls it on the extracted literal. *)

Digits == {"0", "1", "2", "3", "4", "5", "6", "7", "8", "9"}

\* The characters JSON.parse skips between tokens.
JsonWhitespace == {" ", "\n", "\t", "\r"}

\* The characters that may not appear unescaped inside a JSON string.
ControlChars == {"\n", "\t", "\r"}

DigitValue(c) ==
    CASE c = "0" -> 0 [] c = "1" -> 1 [] c = "2" -> 2 [] c = "3" -> 3
      [] c = "4" -> 4 [] c = "5" -> 5 [] c = "6" -> 6 [] c = "7" -> 7
      [] c = "8" -> 8 [] c = "9" -> 9

\* The result of a parsing step: the value read and the position after it,
\* or the position of the SyntaxError.
Parsed(val, next) == [ok |-> TRUE, val |-> val, next |-> next]
SyntaxError(pos) == [ok |-> FALSE, val |-> Undef, next |-> pos]

RECURSIVE SkipWs(_, _)
SkipWs(s, i) ==
    IF i <= Len(s) /\ s[i] \in JsonWhitespace THEN SkipWs(s, i + 1) ELSE i

\* The character an escape sequence \c stands for; <<>> when \c is no escape
\* of JSON.  (\u and its four hex digits are outside the modelled alphabet.)
Unescaped(c) ==
    CASE c = "\"" -> <<"\"">>
      [] c = "\\" -> <<"\\">>
      [] c = "/" -> <<"/">>
      [] c = "n" -> <<"\n">>
      [] c = "t" -> <<"\t">>
      [] c = "r" -> <<"\r">>
      [] OTHER -> <<>>

RECURSIVE ParseChars(_, _, _)
\* The characters of a JSON string from position i (after the opening
\* quote) to its closing quote; acc holds the characters read so far.
ParseChars(s, i, acc) ==
    IF i > Len(s) THEN SyntaxError(i)
    ELSE IF s[i] = "\"" THEN Parsed(Str(acc), i + 1)
    ELSE IF s[i] = "\\" THEN
        IF i + 1 > Len(s) \/ Unescaped(s[i + 1]) = <<>> THEN SyntaxError(i + 1)
        ELSE ParseChars(s, i + 2, acc \o Unescaped(s[i + 1]))
    ELSE IF s[i] \in ControlChars THEN SyntaxError(i)
    ELSE ParseChars(s, i + 1, Append(acc, s[i]))

RECURSIVE ParseDigits(_, _, _)
\* The digits of an integer from position i on; n is the value so far.
ParseDigits(s, i, n) ==
    IF i <= Len(s) /\ s[i] \in Digits
    THEN ParseDigits(s, i + 1, 10 * n + DigitValue(s[i]))
    ELSE Parsed(Num(n), i)

\* A JSON number at position i: an integer without a leading zero (fractions
\* and exponents are outside the modelled alphabet).
ParseNumber(s, i) ==
    LET neg == s[i] = "-"
        j == IF neg THEN i + 1 ELSE i
    IN  IF j > Len(s) \/ s[j] \notin Digits THEN SyntaxError(j)
        ELSE IF s[j] = "0" THEN Parsed(Num(0), j + 1)
        ELSE LET r == ParseDigits(s, j, 0)
             IN  Parsed(Num(IF neg THEN 0 - r.val[2] ELSE r.val[2]), r.next)

\* The property k of entries e set to v, as an object literal does it: a
\* repeated key keeps its place and takes the later value.
SetEntry(e, k, v) ==
    IF \E n \in 1..Len(e) : e[n][1] = k
    THEN [n \in 1..Len(e) |-> IF e[n][1] = k THEN <<k, v>> ELSE e[n]]
    ELSE Append(e, <<k, v>>)

RECURSIVE ParseValue(_, _)
RECURSIVE ParseElements(_, _, _)
RECURSIVE ParseMembers(_, _, _)

\* A JSON value at position i, which holds no whitespace.
ValueAt(s, i) ==
    IF i > Len(s) THEN SyntaxError(i)
    ELSE IF s[i] = "[" THEN
        IF SkipWs(s, i + 1) <= Len(s) /\ s[SkipWs(s, i + 1)] = "]"
        THEN Parsed(Arr(<<>>), SkipWs(s, i + 1) + 1)
        ELSE ParseElements(s, SkipWs(s, i + 1), <<>>)
    ELSE IF s[i] = "{" THEN
        IF SkipWs(s, i + 1) <= Len(s) /\ s[SkipWs(s, i + 1)] = "}"
        THEN Parsed(Obj(<<>>), SkipWs(s, i + 1) + 1)
        ELSE ParseMembers(s, SkipWs(s, i + 1), <<>>)
    ELSE IF s[i] = "\"" THEN ParseChars(s, i + 1, <<>>)
    ELSE IF s[i] = "-" \/ s[i] \in Digits THEN ParseNumber(s, i)
    ELSE IF MatchAt(s, i, <<"n", "u", "l", "l">>) THEN Parsed(Null, i + 4)
    ELSE IF MatchAt(s, i, <<"t", "r", "u", "e">>) THEN Parsed(Bool(TRUE), i + 4)
    ELSE IF MatchAt(s, i, <<"f", "a", "l", "s", "e">>) THEN Parsed(Bool(FALSE), i + 5)
    ELSE SyntaxError(i)

\* A JSON value at position i (whitespace before it skipped).
ParseValue(s, i) == ValueAt(s, SkipWs(s, i))

\* After an element of an array: at position j, acc holding the elements
\* read, the closing bracket or a comma and the elements that follow.
ElementsEnd(s, j, acc) ==
    IF j > Len(s) THEN SyntaxError(j)
    ELSE IF s[j] = "]" THEN Parsed(Arr(acc), j + 1)
    ELSE IF s[j] = "," THEN ParseElements(s, j + 1, acc)
    ELSE SyntaxError(j)

\* The element read (r) joins the elements read before it.
ElementsAfter(s, r, acc) ==
    IF ~r.ok THEN r ELSE ElementsEnd(s, SkipWs(s, r.next), Append(acc, r.val))

\* The elements of an array from position i on, up to its closing bracket.
ParseElements(s, i, acc) == ElementsAfter(s, ParseValue(s, i), acc)

\* After a member of an object: at position j, acc holding the members
\* read, the closing brace or a comma and the members that follow.
MembersEnd(s, j, acc) ==
    IF j > Len(s) THEN SyntaxError(j)
    ELSE IF s[j] = "}" THEN Parsed(Obj(acc), j + 1)
    ELSE IF s[j] = "," THEN ParseMembers(s, j + 1, acc)
    ELSE SyntaxError(j)

\* The value read (r) for the key k joins the members read before it.
MembersAfter(s, k, r, acc) ==
    IF ~r.ok THEN r ELSE MembersEnd(s, SkipWs(s, r.next), SetEntry(acc, k, r.val))

\* The colon at position c and the value of the key k.
MembersValue(s, k, c, acc) ==
    IF c > Len(s) \/ s[c] # ":" THEN SyntaxError(c)
    ELSE MembersAfter(s, k, ParseValue(s, c + 1), acc)

\* The key read (k), then its colon and value.
MembersColon(s, k, acc) ==
    IF ~k.ok THEN k ELSE MembersValue(s, k.val[2], SkipWs(s, k.next), acc)

\* The key of a member at position i.
MembersKey(s, i, acc) ==
    IF i <= Len(s) /\ s[i] = "\"" THEN MembersColon(s, ParseChars(s, i + 1, <<>>), acc)
    ELSE SyntaxError(i)

\* The members of an object from position i on, up to its closing brace.
ParseMembers(s, i, acc) == MembersKey(s, SkipWs(s, i), acc)

\* The value read (r) must be all of s but whitespace.
Complete(s, r) ==
    IF ~r.ok THEN r
    ELSE IF SkipWs(s, r.next) <= Len(s) THEN SyntaxError(SkipWs(s, r.next))
    ELSE r

\* JSON.parse(s): one value and nothing after it, or a SyntaxError.
JSONParse(s) == Complete(s, ParseValue(s, 1))

\* The message of the SyntaxError JSON.parse throws: it names the position.
SyntaxMessage(pos) == <<"Unexpected token in JSON at position ", ToString(pos - 1)>>

---------------------------------------------------------------------------
(* JSON.stringify, as generate calls it on the formatted options. *)

\* The characters of s with the escapes JSON.stringify writes.
Quote(s) ==
    Concat([n \in 1..Len(s) |->
        CASE s[n] = "\"" -> <<"\\", "\"">>
          [] s[n] = "\\" -> <<"\\", "\\">>
          [] s[n] = "\n" -> <<"\\", "n">>
          [] s[n] = "\t" -> <<"\\", "t">>
          [] s[n] = "\r" -> <<"\\", "r">>
          [] OTHER -> <<s[n]>>])

QuoteString(s) == <<"\"">> \o Quote(s) \o <<"\"">>

RECURSIVE NatToString(_)
NatToString(n) ==
    LET d == CHOOSE c \in Digits : DigitValue(c) = n % 10
    IN  IF n < 10 THEN <<d>> ELSE NatToString(n \div 10) \o <<d>>

NumberToString(n) == IF n < 0 THEN <<"-">> \o NatToString(0 - n) ELSE NatToString(n)

RECURSIVE Join(_)
\* The strings of ss separated by commas.
Join(ss) ==
    IF ss = <<>> THEN <<>>
    ELSE IF Len(ss) = 1 THEN ss[1]
    ELSE ss[1] \o <<",">> \o Join(Tail(ss))

RECURSIVE SelectSeqOf(_, _)
\* The entries of e whose value is not undefined: JSON.stringify omits the
\* others.
SelectSeqOf(e, n) ==
    IF n > Len(e) THEN <<>>
    ELSE IF e[n][2][1] \in {"undefined"} THEN SelectSeqOf(e, n + 1)
    ELSE <<e[n]>> \o SelectSeqOf(e, n + 1)

RECURSIVE JSONStringify(_)
\* JSON.stringify(x) for a value that is not undefined.  An undefined array
\* element is written null; an undefined property is left out.
JSONStringify(x) ==
    CASE x[1] = "string" -> QuoteString(x[2])
      [] x[1] = "number" -> NumberToString(x[2])
      [] x[1] = "boolean" -> IF x[2] THEN <<"t", "r", "u", "e">> ELSE <<"f", "a", "l", "s", "e">>
      [] x[1] = "array" ->
            <<"[">> \o Join([n \in 1..Len(x[2]) |-> JSONStringify(x[2][n])]) \o <<"]">>
      [] x[1] = "object" ->
            LET e == SelectSeqOf(x[2], 1)
            IN  <<"{">>
                \o Join([n \in 1..Len(e) |->
                            QuoteString(e[n][1]) \o <<":">> \o JSONStringify(e[n][2])])
                \o <<"}">>
      [] OTHER -> <<"n", "u", "l", "l">>

---------------------------------------------------------------------------
(* The configuration imported from '@/config'.  The build copies that file *)
(* in from a secret, so it is modelled from the specification: a template  *)
(* with the two placeholders, and the two patterns that find the url and   *)
(* the options block in a script.  The fixed text of the template is kept  *)
(* as three opaque pieces that no user text can contain.                   *)

\* The placeholders generate replaces.
UrlPlaceholder == <<"%", "u", "r", "l", "%">>
OptionsPlaceholder == <<"%", "o", "p", "t", "i", "o", "n", "s", "%">>

\* The fixed text before the url, before the options block and after it.
MatchMarker == "// @match "
OptionsOpen == "JSON.parse('"
OptionsClose == "');"

DEFAULT_SCRIPT ==
    <<MatchMarker>> \o UrlPlaceholder \o <<"\n", OptionsOpen>>
    \o OptionsPlaceholder \o <<OptionsClose>>

\* The smallest position >= i at which s holds the character c, or 0.
IndexOf(s, c, i) ==
    IF \E k \in i..Len(s) : s[k] = c
    THEN CHOOSE k \in i..Len(s) : s[k] = c /\ \A m \in i..(k - 1) : s[m] # c
    ELSE 0

\* OPTIONS_REGEX.exec(s)?.groups?.options: the text between the marker that
\* opens the options block and the marker that closes it; undefined when the
\* anchor is absent.
OPTIONS_REGEX(s) ==
    LET a == IndexOf(s, OptionsOpen, 1)
        b == IF a = 0 THEN 0 ELSE IndexOf(s, OptionsClose, a + 1)
    IN  IF a = 0 \/ b = 0 THEN Undef ELSE Str(SubSeq(s, a + 1, b - 1))

\* URL_SCRIPT_REGEX.exec(s)?.groups?.url: the text between the match marker
\* and the wildcard that ends the url; undefined when there is none.
URL_SCRIPT_REGEX(s) ==
    LET a == IndexOf(s, MatchMarker, 1)
        b == IF a = 0 THEN 0 ELSE IndexOf(s, "*", a + 1)
    IN  IF a = 0 \/ b = 0 THEN Undef ELSE Str(SubSeq(s, a + 1, b - 1))

---------------------------------------------------------------------------
(* The Option type and the option list. *)

KeyUuid == <<"u", "u", "i", "d">>
KeyIndex == <<"i", "n", "d", "e", "x">>
KeyId == <<"i", "d">>
KeyText == <<"t", "e", "x", "t">>
KeyName == <<"n", "a", "m", "e">>
KeyColour == <<"c", "o", "l", "o", "u", "r">>
KeyType == <<"t", "y", "p", "e">>

TypeId == Str(<<"i", "d">>)
TypeText == Str(<<"t", "e", "x", "t">>)

\* x.k for a value x that is not null or undefined: the property of an
\* object; undefined on an array or a primitive for the keys used here.
Field(x, k) ==
    IF x[1] = "object" /\ \E n \in 1..Len(x[2]) : x[2][n][1] = k
    THEN x[2][CHOOSE n \in 1..Len(x[2]) : x[2][n][1] = k][2]
    ELSE Undef

\* The Option a parsed record is, property by property.
AsOption(x) ==
    [uuid |-> Field(x, KeyUuid), index |-> Field(x, KeyIndex), id |-> Field(x, KeyId),
     text |-> Field(x, KeyText), name |-> Field(x, KeyName),
     colour |-> Field(x, KeyColour), type |-> Field(x, KeyType)]

\* updateIndexes on a list: every entry's index becomes its position + 1.
updateIndexes(list) == [n \in 1..Len(list) |-> [list[n] EXCEPT !.index = Num(n)]]

---------------------------------------------------------------------------
(* parse: the options block of the script becomes the option list. *)

\* The three replacements parse applies to the extracted literal:
\* \' to ', \\" to \" and \\n to \n, one after the other.
UnescapeOptions(raw) ==
    ReplaceAll(
        ReplaceAll(
            ReplaceAll(raw, <<"\\", "'">>, <<"'">>),
            <<"\\", "\\", "\"">>, <<"\\", "\"">>),
        <<"\\", "\\", "n">>, <<"\\", "n">>)

\* The literal without `?? '[]'`: the empty text when the anchor is absent.
RawOptionsWithoutDefault(s) ==
    LET m == OPTIONS_REGEX(s)
    IN  UnescapeOptions(IF m[1] = "undefined" THEN <<>> ELSE m[2])

\* The literal parse hands to JSON.parse: the extracted block, '[]' when
\* the anchor is absent, with the escaping undone.
RawOptions(s) ==
    LET m == OPTIONS_REGEX(s)
    IN  UnescapeOptions(IF m[1] = "undefined" THEN <<"[", "]">> ELSE m[2])

\* `x.length > 0` for a truthy x.
LengthPositive(x) ==
    CASE x[1] = "string" -> Len(x[2]) > 0
      [] x[1] = "array" -> Len(x[2]) > 0
      [] x[1] = "object" ->
            LET l == Field(x, <<"l", "e", "n", "g", "t", "h">>)
            IN  l[1] = "number" /\ l[2] > 0
      [] OTHER -> FALSE

\* The type parse gives an option that specifies none.
InferType(o) ==
    IF Truthy(o.type) THEN o.type
    ELSE IF Truthy(o.text) /\ LengthPositive(o.text) THEN TypeText
    ELSE TypeId

RECURSIVE PadColour(_)
\* The while loop of parse: '0' is appended while the colour is shorter
\* than 6 characters.
PadColour(c) == IF Len(c) < 6 THEN PadColour(Append(c, "0")) ELSE c

\* The colour after the padding step, for a colour that is a string.
FixColour(c) ==
    IF Truthy(c) /\ StartsWith(c[2], <<"#">>) /\ Len(c[2]) < 6
    THEN Str(PadColour(c[2]))
    ELSE c

\* The end of the loop body of parse on option o: an option without uuid
\* takes the next identifier, and the option is pushed.
Identified(o, u) ==
    IF Truthy(o.uuid)
    THEN [thrown |-> FALSE, option |-> o, uuid |-> u]
    ELSE [thrown |-> FALSE, option |-> [o EXCEPT !.uuid = Uuid(u + 1)], uuid |-> u + 1]

\* The loop body of parse on option o: a truthy colour that is no string
\* has no startsWith to call.
Processed(o, u) ==
    IF Truthy(o.colour) /\ o.colour[1] # "string"
    THEN [thrown |-> TRUE, option |-> [o EXCEPT !.type = InferType(o)], uuid |-> u]
    ELSE Identified([o EXCEPT !.type = InferType(o), !.colour = FixColour(o.colour)], u)

\* One pass of the loop body of parse on the parsed element x, with u
\* identifiers handed out so far: the option pushed, or a TypeError.
\*   - null: reading option.type throws;
\*   - a primitive has no type and no text, and assigning option.type throws
\*     in the strict mode of a module.
ProcessOption(x, u) ==
    IF IsNullish(x) \/ IsPrimitive(x)
    THEN [thrown |-> TRUE, option |-> AsOption(Obj(<<>>)), uuid |-> u]
    ELSE Processed(AsOption(x), u)

RECURSIVE ProcessOptions(_, _, _, _)
\* The loop of parse after the pass r on the element at position n.
Pushed(elems, n, acc, u, r) ==
    IF r.thrown THEN [thrown |-> TRUE, list |-> acc, uuid |-> u]
    ELSE ProcessOptions(elems, n + 1, Append(acc, r.option), r.uuid)

\* The for loop of parse over the elements from position n on: the list
\* pushed so far (acc) grows until the elements end or one throws.
ProcessOptions(elems, n, acc, u) ==
    IF n > Len(elems) THEN [thrown |-> FALSE, list |-> acc, uuid |-> u]
    ELSE Pushed(elems, n, acc, u, ProcessOption(elems[n], u))

\* What `for (const option of parsedOptions)` iterates over: the elements
\* of an array, the characters of a string; anything else is not iterable.
Iterable(x) == x[1] \in {"array", "string"}
Elements(x) ==
    IF x[1] = "string" THEN [n \in 1..Len(x[2]) |-> Str(<<x[2][n]>>)] ELSE x[2]

\* parse() after its for loop ended as r tells.
Looped(r) ==
    IF r.thrown
    THEN [kind |-> "throw", message |-> <<>>, options |-> Arr(r.list), uuid |-> r.uuid]
    ELSE [kind |-> "ok", message |-> <<>>, options |-> Arr(updateIndexes(r.list)),
          uuid |-> r.uuid]

\* parse() after JSON.parse returned or threw as j tells.
Decoded(j, cur, u) ==
    IF ~j.ok
    THEN [kind |-> "error", message |-> SyntaxMessage(j.next), options |-> cur, uuid |-> u]
    ELSE IF ~Iterable(j.val)
    THEN [kind |-> "throw", message |-> <<>>, options |-> Arr(<<>>), uuid |-> u]
    ELSE Looped(ProcessOptions(Elements(j.val), 1, <<>>, u))

\* parse() with `options.value = []` moved above the try block: a literal
\* that does not parse costs the list.
ParseOutcomeClearing(s, cur, u) == Decoded(JSONParse(RawOptions(s)), Arr(<<>>), u)

\* The outcome of parse() on script s with option list cur and u
\* identifiers handed out:
\*   "error": JSON.parse threw, the message is set and the list is left alone;
\*   "throw": a TypeError left the handler after options.value = [] and the
\*            pushes made so far, before updateIndexes;
\*   "ok":    the list is complete and its indexes are updated.
ParseOutcome(s, cur, u) == Decoded(JSONParse(RawOptions(s)), cur, u)

ErrorPrefix == <<"Unable to parse options: ">>

---------------------------------------------------------------------------
(* generate: the option list becomes the script. *)

\* option.text?.replace(/\n/g, '\\n'): undefined for null and undefined.
EscapeNewlines(x) ==
    IF IsNullish(x) THEN Undef ELSE Str(ReplaceAll(x[2], <<"\n">>, <<"\\", "n">>))

\* The record generate pushes for an option.
FormatOption(o) ==
    Obj(<< <<KeyType, o.type>>, <<KeyId, o.id>>, <<KeyText, EscapeNewlines(o.text)>>,
           <<KeyName, EscapeNewlines(o.name)>>, <<KeyColour, o.colour>> >>)

\* Whether generate throws on the option: replace is called on a text or a
\* name that is neither a string nor null or undefined.
FormatThrows(o) ==
    \/ ~IsNullish(o.text) /\ o.text[1] # "string"
    \/ ~IsNullish(o.name) /\ o.name[1] # "string"

\* The two replacements generate applies to the serialized list:
\* ' to \' and then \" to \\".
EscapeOptions(json) ==
    ReplaceAll(
        ReplaceAll(json, <<"'">>, <<"\\", "'">>),
        <<"\\", "\"">>, <<"\\", "\\", "\"">>)

RECURSIVE Expand(_, _, _, _, _)
\* The replacement string r from position k on, with the patterns
\* String.prototype.replace expands in it: $$, $&, $` and $'.
Expand(r, k, before, matched, after) ==
    LET d == NextMatch(r, k, <<"$">>)
    IN  IF d = 0 THEN SubSeq(r, k, Len(r))
        ELSE IF d < Len(r) /\ r[d + 1] \in {"$", "&", "`", "'"}
        THEN SubSeq(r, k, d - 1)
             \o (CASE r[d + 1] = "$" -> <<"$">>
                   [] r[d + 1] = "&" -> matched
                   [] r[d + 1] = "`" -> before
                   [] r[d + 1] = "'" -> after)
             \o Expand(r, d + 2, before, matched, after)
        ELSE SubSeq(r, k, d) \o Expand(r, d + 1, before, matched, after)

RECURSIVE SubstituteFrom(_, _, _, _)
\* s.replace(/p/g, r) from position i on, for a literal pattern p and a
\* replacement string r in which the $ patterns are expanded.
SubstituteFrom(s, i, p, r) ==
    LET k == NextMatch(s, i, p)
    IN  IF k = 0 THEN SubSeq(s, i, Len(s))
        ELSE SubSeq(s, i, k - 1)
             \o Expand(r, 1, SubSeq(s, 1, k - 1), p, SubSeq(s, k + Len(p), Len(s)))
             \o SubstituteFrom(s, k + Len(p), p, r)

Substitute(s, p, r) == SubstituteFrom(s, 1, p, r)

\* The script generate() builds from the list and the url.
GeneratedScript(list, u) ==
    Substitute(
        Substitute(DEFAULT_SCRIPT, UrlPlaceholder, u \o <<"*">>),
        OptionsPlaceholder,
        EscapeOptions(JSONStringify(Arr([n \in 1..Len(list) |-> FormatOption(list[n])]))))

\* Whether generate() throws on the list: the loop reaches an option whose
\* text or name has no replace.
GenerateThrows(list) == \E n \in 1..Len(list) : FormatThrows(list[n])

---------------------------------------------------------------------------
(* validateUrl: the url is checked against the expected page and a fix is  *)
(* proposed.  The url is the value of a one-line <input>: it holds no line *)
(* terminator, so `.` matches each of its characters.                      *)

expectedPage ==
    <<"s", "u", "p", "p", "o", "r", "t", "t", "i", "c", "k", "e", "t", "s", ".", "p", "h", "p">>

\* The message built from urlFormat.
FormatMessage ==
    <<"The url should ideally be ", "http(s)://endpoint/<admin directory>/">> \o expectedPage

EmptyMessage == <<"Please enter a url">>

\* The default directory of the fix.
DefaultDirectory == <<"a", "d", "m", "i", "n">>

\* A warning {message, fix}; fix is undefined when there is none.
Warning(m, f) == <<"warning", [message |-> Str(m), fix |-> f]>>

LowerLetters ==
    <<"a", "b", "c", "d", "e", "f", "g", "h", "i", "j", "k", "l", "m",
      "n", "o", "p", "q", "r", "s", "t", "u", "v", "w", "x", "y", "z">>
UpperLetters ==
    <<"A", "B", "C", "D", "E", "F", "G", "H", "I", "J", "K", "L", "M",
      "N", "O", "P", "Q", "R", "S", "T", "U", "V", "W", "X", "Y", "Z">>

\* The character classes of urlRegex, under its i flag.
Letters == {LowerLetters[n] : n \in 1..26} \cup {UpperLetters[n] : n \in 1..26}
DomainChars == Letters \cup Digits \cup {"|", "-"}
PageChars == Letters \cup Digits \cup {".", "*"}

ToLower(c) ==
    IF \E n \in 1..26 : UpperLetters[n] = c
    THEN LowerLetters[CHOOSE n \in 1..26 : UpperLetters[n] = c]
    ELSE c

\* Whether the regular expression p, a literal in which `.` matches any
\* character, matches the characters of s that end at position e.
WildBehind(s, e, p) ==
    /\ e - Len(p) >= 0
    /\ \A k \in 1..Len(p) : p[k] = "." \/ s[e - Len(p) + k] = p[k]

\* value.replace(new RegExp(`(?<=\/${expectedPage}).*`, 'g'), ''): what
\* follows the first '/supporttickets.php' is removed.
StripQuery(value) ==
    LET p == <<"/">> \o expectedPage
        ends == {e \in 1..Len(value) : WildBehind(value, e, p)}
    IN  IF ends = {} THEN value
        ELSE SubSeq(value, 1, CHOOSE e \in ends : \A f \in ends : e <= f)

\* (?:[a-z0-9|-]+\.)*[a-z0-9|-]+\.[a-z]+ matching the whole of d: labels of
\* domain characters separated by dots, at least two, the last of letters.
IsDomain(d) ==
    /\ Len(d) > 0
    /\ \A n \in 1..Len(d) : d[n] \in DomainChars \cup {"."}
    /\ d[1] # "." /\ d[Len(d)] # "."
    /\ \A n \in 1..(Len(d) - 1) : ~(d[n] = "." /\ d[n + 1] = ".")
    /\ \E n \in 1..Len(d) :
        /\ d[n] = "."
        /\ \A m \in (n + 1)..Len(d) : d[m] \in Letters

\* urlRegex matches nowhere: every group is undefined.
NoMatch ==
    [matched |-> FALSE, protocol |-> Undef, domain |-> Undef,
     directories |-> Undef, page |-> Undef]

\* (?<page>[a-zA-Z0-9.*]*) at the start of s: its longest run of page
\* characters.
PageOf(s) ==
    IF \A n \in 1..Len(s) : s[n] \in PageChars THEN s
    ELSE SubSeq(s, 1, (CHOOSE n \in 1..Len(s) :
                          /\ s[n] \notin PageChars
                          /\ \A m \in 1..(n - 1) : s[m] \in PageChars) - 1)

\* (?<directories>.+\/)* on rest, what follows the '/' after the domain:
\* `.+` is greedy and page and query match the empty string, so the group
\* ends at the last '/' of rest that has a character before it; 0 when
\* there is none.
LastSlash(rest) ==
    IF \E n \in 2..Len(rest) : rest[n] = "/"
    THEN CHOOSE n \in 2..Len(rest) :
            rest[n] = "/" /\ \A m \in (n + 1)..Len(rest) : rest[m] # "/"
    ELSE 0

\* The groups of a match: the directories end at position cut of rest and
\* the page follows them.
Groups(protocol, domain, rest, cut) ==
    [matched |-> TRUE,
     protocol |-> Str(protocol),
     domain |-> Str(domain),
     directories |-> IF cut = 0 THEN Undef ELSE Str(SubSeq(rest, 1, cut)),
     page |-> Str(PageOf(SubSeq(rest, cut + 1, Len(rest))))]

\* The domain runs from position d0 to the first '/' after it, at q.
MatchDomain(s, i, d0, q) ==
    IF q # 0 /\ IsDomain(SubSeq(s, d0, q - 1))
    THEN Groups(SubSeq(s, i, d0 - 4), SubSeq(s, d0, q - 1), SubSeq(s, q + 1, Len(s)),
                LastSlash(SubSeq(s, q + 1, Len(s))))
    ELSE NoMatch

\* https?:// ends at position pEnd + 3.
MatchProtocol(s, i, pEnd) ==
    IF MatchAt(s, pEnd + 1, <<":", "/", "/">>)
    THEN MatchDomain(s, i, pEnd + 4, IndexOf(s, "/", pEnd + 4))
    ELSE NoMatch

\* The groups of urlRegex matched at position i of s, or no match.
MatchUrlAt(s, i) ==
    IF MatchAt([n \in 1..Len(s) |-> ToLower(s[n])], i, <<"h", "t", "t", "p">>)
    THEN MatchProtocol(s, i, IF i + 4 <= Len(s) /\ ToLower(s[i + 4]) = "s"
                             THEN i + 4 ELSE i + 3)
    ELSE NoMatch

\* urlRegex.exec(s)?.groups ?? {} with lastIndex 0: the groups of the
\* leftmost match; every group is undefined when there is none.
urlRegex(s) ==
    IF \E i \in 1..Len(s) : MatchUrlAt(s, i).matched
    THEN MatchUrlAt(s, CHOOSE i \in 1..Len(s) :
                          /\ MatchUrlAt(s, i).matched
                          /\ \A j \in 1..(i - 1) : ~MatchUrlAt(s, j).matched)
    ELSE NoMatch

\* The directories put into the fix as they were captured.
TrimmedNever(directories) == directories

\* directories.substring(0, directories.length - 1) when directories ends
\* with '/'.
Trimmed(directories) ==
    IF EndsWith(directories, <<"/">>)
    THEN SubSeq(directories, 1, Len(directories) - 1) ELSE directories

\* The fix built with the page always replaced by the expected page.
FixFromReplacingPage(g) ==
    IF Truthy(g.protocol) /\ Truthy(g.domain)
    THEN Str(g.protocol[2] \o <<":", "/", "/">> \o g.domain[2] \o <<"/">>
             \o Trimmed(IF ~Truthy(g.directories) \/ Len(g.directories[2]) < 3
                        THEN DefaultDirectory ELSE g.directories[2])
             \o <<"/">> \o expectedPage)
    ELSE Undef

\* The fix validateUrl builds from the groups g: directories and page
\* shorter than 3 characters are replaced by the defaults.
FixFrom(g) ==
    IF Truthy(g.protocol) /\ Truthy(g.domain)
    THEN Str(g.protocol[2] \o <<":", "/", "/">> \o g.domain[2] \o <<"/">>
             \o Trimmed(IF ~Truthy(g.directories) \/ Len(g.directories[2]) < 3
                        THEN DefaultDirectory ELSE g.directories[2])
             \o <<"/">>
             \o (IF ~Truthy(g.page) \/ Len(g.page[2]) < 3 THEN expectedPage
                 ELSE g.page[2]))
    ELSE Undef

\* The fix validateUrl computes from a url that is not the expected page.
ComputeFix(value) == FixFrom(urlRegex(value))

\* validateUrl without the guard on attemptedFix: a fix is computed again.
CheckedRepairing(stripped, attemptedFix) ==
    IF ~EndsWith(stripped, expectedPage)
    THEN [url |-> stripped, urlWarning |-> Warning(FormatMessage, ComputeFix(stripped))]
    ELSE [url |-> stripped, urlWarning |-> Null]

\* validateUrl once the query is removed: url holds the stripped value.
Checked(stripped, attemptedFix) ==
    IF ~EndsWith(stripped, expectedPage)
    THEN [url |-> stripped,
          urlWarning |->
              Warning(FormatMessage,
                      IF ~attemptedFix THEN ComputeFix(stripped) ELSE Undef)]
    ELSE [url |-> stripped, urlWarning |-> Null]

\* validateUrl on a value that the url input has replaced when it was null
\* or ''.
Validated(value, attemptedFix, cur) ==
    IF value = <<>>
    THEN [url |-> cur, urlWarning |-> Warning(EmptyMessage, Undef)]
    ELSE Checked(StripQuery(value), attemptedFix)

\* validateUrl(value, attemptedFix) with the url input holding cur: the new
\* values of url and urlWarning.
ValidateOutcome(value0, attemptedFix, cur) ==
    Validated(IF Truthy(value0) THEN value0[2] ELSE cur, attemptedFix, cur)

---------------------------------------------------------------------------
(* The operations on the option list. *)

Min(a, b) == IF a < b THEN a ELSE b
Max(a, b) == IF a > b THEN a ELSE b

\* Array.prototype.splice(start, deleteCount, ...items) on list, start being
\* a 0-based position: a negative start counts from the end, and both start
\* and deleteCount are clamped to the array.
Splice(list, start, deleteCount, items) ==
    LET len == Len(list)
        from == IF start < 0 THEN Max(len + start, 0) ELSE Min(start, len)
        count == Min(Max(deleteCount, 0), len - from)
    IN  SubSeq(list, 1, from) \o items \o SubSeq(list, from + count + 1, len)

\* The option newOption pushes; u identifiers were handed out before.
DefaultOption(u) ==
    [uuid |-> Uuid(u + 1), index |-> Undef,
     id |-> Str(<<>>), text |-> Undef,
     name |-> Str(<<"E", "n", "t", "e", "r", " ", "a", " ", "n", "a", "m", "e">>),
     colour |-> Str(<<"#", "4", "5", "4", "7", "4", "e">>), type |-> TypeId]

\* The list after newOption().
NewOptionList(list, u) == updateIndexes(Append(list, DefaultOption(u)))

\* The list after deleteOption(index).
DeleteOptionList(list, index) == updateIndexes(Splice(list, index, 1, <<>>))

\* clone(index) without `uuid: crypto.randomUUID()`: the copy keeps the
\* identifier of the option it was made from.
CloneListSharing(list, index, u) ==
    updateIndexes(
        SubSeq(list, 1, index + 1) \o <<list[index + 1]>> \o SubSeq(list, index + 2, Len(list)))

\* The list after clone(index), for a position of the list.
CloneList(list, index, u) ==
    updateIndexes(
        SubSeq(list, 1, index + 1)
        \o <<[list[index + 1] EXCEPT !.uuid = Uuid(u + 1)]>>
        \o SubSeq(list, index + 2, Len(list)))

\* `option.index ? option.index - 1 : 0`, the index being a number or
\* undefined.
JumpTarget(option) == IF Truthy(option.index) THEN option.index[2] - 1 ELSE 0

\* The 'jump' case written like 'up' and 'down': the option and the one at
\* its target exchange places.
JumpListSwapping(list, index) ==
    LET option == list[index + 1]
        newIndex == JumpTarget(option)
    IN  IF ~(newIndex < 0 \/ newIndex >= Len(list) \/ newIndex = index)
        THEN [list EXCEPT ![index + 1] = list[newIndex + 1], ![newIndex + 1] = option]
        ELSE list

\* The list after the 'jump' case of reorder(index, 'jump').
JumpList(list, index) ==
    LET option == list[index + 1]
        newIndex == JumpTarget(option)
    IN  IF ~(newIndex < 0 \/ newIndex >= Len(list) \/ newIndex = index)
        THEN Splice(Splice(list, index, 1, <<>>), newIndex, 0, <<option>>)
        ELSE list

\* The exchange written without `temp`: the entry at a is overwritten
\* before it is stored at b.
SwapOverwriting(list, a, b) ==
    [n \in 1..Len(list) |-> IF n = a + 1 \/ n = b + 1 THEN list[b + 1] ELSE list[n]]

\* The list with the entries at 0-based positions a and b exchanged.
Swap(list, a, b) ==
    [n \in 1..Len(list) |->
        IF n = a + 1 THEN list[b + 1] ELSE IF n = b + 1 THEN list[a + 1] ELSE list[n]]

\* The list after reorder(index, direction), for a position of the list.
\* 'up' on the first entry and 'down' on the last return before
\* updateIndexes; every other path ends with it.
ReorderList(list, index, direction) ==
    CASE direction = "jump" -> updateIndexes(JumpList(list, index))
      [] direction = "up" ->
            IF index <= 0 THEN list ELSE updateIndexes(Swap(list, index, index - 1))
      [] direction = "down" ->
            IF index >= Len(list) - 1 THEN list
            ELSE updateIndexes(Swap(list, index, index + 1))

\* The list after updateType(index): 'text' becomes 'id', anything else 'text'.
UpdateTypeList(list, index) ==
    [list EXCEPT ![index + 1].type = IF @ = TypeText THEN TypeId ELSE TypeText]

---------------------------------------------------------------------------
(* The inputs the handlers are driven with. *)

\* A script as generate writes it: the url with its wildcard and the
\* options block.
Script(u, raw) ==
    <<MatchMarker>> \o u \o <<"*", "\n", OptionsOpen>> \o raw \o <<OptionsClose>>

GoodUrl ==
    <<"h", "t", "t", "p", ":", "/", "/", "a", ".", "i", "o", "/", "a", "d", "m", "/">>
    \o expectedPage
BadUrl == <<"h", "t", "t", "p", ":", "/", "/", "a", ".", "i", "o", "/", "p", "g", "?", "q">>

\* [{"name":"a","colour":"#ab"},{"text":"x"}]
LiteralTwo ==
    <<"[", "{", "\"", "n", "a", "m", "e", "\"", ":", "\"", "a", "\"", ",",
      "\"", "c", "o", "l", "o", "u", "r", "\"", ":", "\"", "#", "a", "b", "\"", "}", ",",
      "{", "\"", "t", "e", "x", "t", "\"", ":", "\"", "x", "\"", "}", "]">>
\* [{
LiteralBroken == <<"[", "{">>
\* [{"name":"a"},null]
LiteralNull ==
    <<"[", "{", "\"", "n", "a", "m", "e", "\"", ":", "\"", "a", "\"", "}", ",",
      "n", "u", "l", "l", "]">>

\* [{"uuid":"u"},{"uuid":"u"}]
LiteralSameUuid ==
    <<"[", "{", "\"", "u", "u", "i", "d", "\"", ":", "\"", "u", "\"", "}", ",",
      "{", "\"", "u", "u", "i", "d", "\"", ":", "\"", "u", "\"", "}", "]">>

\* The texts typed or pasted into the script textbox.
ScriptInputs ==
    {Script(GoodUrl, LiteralTwo), Script(BadUrl, LiteralBroken),
     Script(GoodUrl, LiteralNull)}

\* The numbers typed into the order input of an option: below, inside and
\* above the orders of a list.
OrderInputs == (0 - 1)..MaxLen

\* The options of the list whose order is not the one updateIndexes gives.
Typed(list) == {n \in 1..Len(list) : list[n].index # Num(n)}

\* The positions of a list.
Positions(list) == 0..(Len(list) - 1)

\* The indexes the handlers are called with: the positions of the list, two
\* before them and one after them.
Indexes(list) == (0 - 2)..Len(list)

Directions == {"up", "down", "jump"}

---------------------------------------------------------------------------
(* The handlers. *)

Init ==
    /\ script = <<>>
    /\ error = Null
    /\ options = Null
    /\ results = Null
    /\ url = <<>>
    /\ urlWarning = Null
    /\ nextUuid = 0
    /\ thrown = FALSE
    /\ last = [op |-> "init", d |-> ""]

\* The record of a call: the handler and the branch its arguments select.
Called(op, d) == last' = [op |-> op, d |-> d]

\* The list the handlers work on; `if (!options.value) return` leaves them
\* disabled while it is null.
HasList == options[1] = "array"

\* v-model="script": the textbox is edited.
setScript(s) ==
    /\ script' = s
    /\ thrown' = FALSE
    /\ Called("setScript", "")
    /\ UNCHANGED <<error, options, results, url, urlWarning, nextUuid>>

\* The Default button: script = DEFAULT_SCRIPT?.replace(/%options%/g, '[]').
defaultScript ==
    /\ script' = Substitute(DEFAULT_SCRIPT, OptionsPlaceholder, <<"[", "]">>)
    /\ thrown' = FALSE
    /\ Called("defaultScript", "")
    /\ UNCHANGED <<error, options, results, url, urlWarning, nextUuid>>

\* parse(), the Go! button.
parse ==
    LET r == ParseOutcome(script, options, nextUuid)
    IN  /\ r.uuid <= MaxUuid
        /\ error' = IF r.kind = "error" THEN Str(ErrorPrefix \o r.message) ELSE error
        /\ options' = r.options
        /\ nextUuid' = r.uuid
        /\ thrown' = (r.kind = "throw")
        /\ Called("parse", r.kind)
        /\ UNCHANGED <<script, results, url, urlWarning>>

\* newOption(), the New button.
newOption ==
    LET list == IF HasList THEN options[2] ELSE <<>>
    IN  /\ Len(list) < MaxLen
        /\ nextUuid < MaxUuid
        /\ options' = Arr(NewOptionList(list, nextUuid))
        /\ nextUuid' = nextUuid + 1
        /\ thrown' = FALSE
        /\ Called("newOption", "")
        /\ UNCHANGED <<script, error, results, url, urlWarning>>

\* deleteOption(index).
deleteOption(index) ==
    /\ HasList
    /\ options' = Arr(DeleteOptionList(options[2], index))
    /\ thrown' = FALSE
    /\ Called("deleteOption", "")
    /\ UNCHANGED <<script, error, results, url, urlWarning, nextUuid>>

\* clone(index).
clone(index) ==
    /\ HasList
    /\ index \in Positions(options[2])
    /\ Len(options[2]) < MaxLen
    /\ nextUuid < MaxUuid
    /\ options' = Arr(CloneList(options[2], index, nextUuid))
    /\ nextUuid' = nextUuid + 1
    /\ thrown' = FALSE
    /\ Called("clone", "")
    /\ UNCHANGED <<script, error, results, url, urlWarning>>

\* reorder(index, direction).
reorder(index, direction) ==
    /\ HasList
    /\ index \in Positions(options[2])
    /\ options' = Arr(ReorderList(options[2], index, direction))
    /\ thrown' = FALSE
    /\ Called("reorder", direction)
    /\ UNCHANGED <<script, error, results, url, urlWarning, nextUuid>>

\* v-model.number="options[index].index": a number is typed into the order
\* input of an option.
setIndex(index, k) ==
    /\ HasList
    /\ index \in Positions(options[2])
    /\ Cardinality(Typed(options[2]) \cup {index + 1}) <= MaxTyped
    /\ options' = Arr([options[2] EXCEPT ![index + 1].index = Num(k)])
    /\ thrown' = FALSE
    /\ Called("setIndex", "")
    /\ UNCHANGED <<script, error, results, url, urlWarning, nextUuid>>

\* updateType(index, event).
updateType(index) ==
    /\ HasList
    /\ index \in Positions(options[2])
    /\ options' = Arr(UpdateTypeList(options[2], index))
    /\ thrown' = FALSE
    /\ Called("updateType", "")
    /\ UNCHANGED <<script, error, results, url, urlWarning, nextUuid>>

\* validateUrl(value, attemptedFix).
validateUrl(value, attemptedFix) ==
    LET r == ValidateOutcome(value, attemptedFix, url)
    IN  /\ url' = r.url
        /\ urlWarning' = r.urlWarning
        /\ thrown' = FALSE
        /\ Called("validateUrl", IF attemptedFix THEN "retry" ELSE "first")
        /\ UNCHANGED <<script, error, options, results, nextUuid>>

\* updateScript(clear): the change event of the textbox and the Clear button.
updateScript(clear) ==
    LET newUrl == URL_SCRIPT_REGEX(script)
        r == ValidateOutcome(newUrl, FALSE, url)
    IN  /\ IF clear
           THEN script' = <<>> /\ url' = <<>> /\ UNCHANGED urlWarning
           ELSE IF Truthy(newUrl)
           THEN url' = r.url /\ urlWarning' = r.urlWarning /\ UNCHANGED script
           ELSE UNCHANGED <<script, url, urlWarning>>
        /\ error' = Null
        /\ results' = Null
        /\ options' = Null
        /\ thrown' = FALSE
        /\ Called("updateScript", IF clear THEN "clear" ELSE "change")
        /\ UNCHANGED nextUuid

\* generate(), the Generate button.
generate ==
    /\ HasList
    /\ results' = IF GenerateThrows(options[2]) THEN results
                  ELSE Str(GeneratedScript(options[2], url))
    /\ thrown' = GenerateThrows(options[2])
    /\ Called("generate", "")
    /\ UNCHANGED <<script, error, options, url, urlWarning, nextUuid>>

Next ==
    \/ \E s \in ScriptInputs : setScript(s)
    \/ defaultScript
    \/ updateScript(TRUE)
    \/ updateScript(FALSE)
    \/ parse
    \/ newOption
    \/ \E i \in Indexes(options[2]) : deleteOption(i)
    \/ \E i \in Positions(options[2]) : clone(i)
    \/ \E i \in Positions(options[2]), d \in Directions : reorder(i, d)

Spec == Init /\ [][Next]_vars

---------------------------------------------------------------------------
(* The list editor alone: the session right after a script was parsed,     *)
(* driven through the operations on the list.                              *)

\* The list editor starts from the list of [] or of the two records.
InitList ==
    \E lit \in {<<"[", "]">>, LiteralTwo} :
        LET r == ParseOutcome(Script(GoodUrl, lit), Null, 0)
        IN  /\ script = Script(GoodUrl, lit)
            /\ error = Null
            /\ options = r.options
            /\ results = Null
            /\ url = GoodUrl
            /\ urlWarning = Null
            /\ nextUuid = r.uuid
            /\ thrown = FALSE
            /\ last = [op |-> "parse", d |-> r.kind]

NextList ==
    \/ newOption
    \/ \E i \in Indexes(options[2]) : deleteOption(i)
    \/ \E i \in Positions(options[2]) : clone(i)
    \/ \E i \in Positions(options[2]), d \in Directions : reorder(i, d)
    \/ \E i \in Positions(options[2]), k \in OrderInputs : setIndex(i, k)

SpecList == InitList /\ [][NextList]_vars

---------------------------------------------------------------------------
(* The codec alone: scripts are parsed, the list is generated into a       *)
(* script again and that script is pasted back into the textbox.           *)

\* The characters the text of an option is written with in a script: the
\* ones the escaping is about, the one String.prototype.replace reads in a
\* replacement, and a letter.
BodyChars == {"\\", "n", "\"", "'", "$", "a"}

\* The bodies of a string literal of up to MaxBody characters, and a few
\* longer ones: \\\n, \\\\n, a\\"a and $&$'.
Bodies ==
    UNION {[1..n -> BodyChars] : n \in 0..MaxBody}
    \cup {<<"\\", "\\", "\\", "n">>, <<"\\", "\\", "\\", "\\", "n">>,
          <<"a", "\\", "\\", "\"", "a">>, <<"$", "&", "$", "'">>}

\* [{"<key>":"<body>"}]
FieldLiteral(key, body) ==
    <<"[", "{", "\"">> \o key \o <<"\"", ":", "\"">> \o body \o <<"\"", "}", "]">>

\* The colours a script gives an option: short, full and without the '#'.
ColourInputs ==
    {<<"#">>, <<"#", "a", "b">>, <<"#", "a", "b", "c">>, <<"#", "a", "b", "c", "d">>,
     <<"#", "a", "b", "c", "d", "e">>, <<"#", "a", "b", "c", "d", "e", "f">>,
     <<"a", "b", "c">>}

\* Literals that are JSON but no array of records: 5, null, {}, [null],
\* [1] and ["a"]; and the ones of the session.
OtherLiterals ==
    {<<"5">>, <<"n", "u", "l", "l">>, <<"{", "}">>, <<"[", "n", "u", "l", "l", "]">>,
     <<"[", "1", "]">>, <<"[", "\"", "a", "\"", "]">>, <<"[", "]">>,
     LiteralTwo, LiteralBroken, LiteralNull}

\* The scripts the codec is given: one for each literal, and one that has
\* no options block.
CodecScripts ==
    {Script(GoodUrl, FieldLiteral(KeyText, b)) : b \in Bodies}
    \cup {Script(GoodUrl, FieldLiteral(KeyName, b)) : b \in Bodies}
    \cup {Script(GoodUrl, FieldLiteral(KeyColour, c)) : c \in ColourInputs}
    \cup {Script(GoodUrl, lit) : lit \in OtherLiterals}
    \cup {<<"x">>}

InitCodec ==
    /\ script \in CodecScripts
    /\ error = Null
    /\ options = Null
    /\ results = Null
    /\ url = GoodUrl
    /\ urlWarning = Null
    /\ nextUuid = 0
    /\ thrown = FALSE
    /\ last = [op |-> "init", d |-> ""]

\* The generated script is copied from the results and pasted into the
\* textbox.
pasteResults ==
    /\ results[1] = "string"
    /\ setScript(results[2])

NextCodec ==
    \/ parse
    \/ generate
    \/ pasteResults
    \/ updateScript(FALSE)
    \/ \E i \in Positions(options[2]) : updateType(i)

SpecCodec == InitCodec /\ [][NextCodec]_vars

---------------------------------------------------------------------------
(* The url input alone: urls are typed, validated and fixed.               *)

\* http and https.
Protocols ==
    {<<"h", "t", "t", "p">>, <<"h", "t", "t", "p", "s">>}

\* example.com.
Domains ==
    {<<"e", "x", "a", "m", "p", "l", "e", ".", "c", "o", "m">>}

\* No directory, a, ab, panel and x/yz.
Directories ==
    {<<>>, <<"a">>, <<"a", "b">>, <<"p", "a", "n", "e", "l">>, <<"x", "/", "y", "z">>}

\* No page, ab, a-b, supportticketsXphp, ticketsystem.php,
\* supporttickets.php, xsupporttickets.php and supporttickets.php5.
Pages ==
    {<<>>, <<"a", "b">>, <<"a", "-", "b">>,
     <<"s", "u", "p", "p", "o", "r", "t", "t", "i", "c", "k", "e", "t", "s", "X", "p", "h", "p">>,
     <<"s", "u", "p", "p", "o", "r", "t", "t", "i", "c", "k", "e", "t", "s", ".", "p", "h", "p", "5">>,
     <<"t", "i", "c", "k", "e", "t", "s", "y", "s", "t", "e", "m", ".", "p", "h", "p">>,
     <<"s", "u", "p", "p", "o", "r", "t", "t", "i", "c", "k", "e", "t", "s", ".", "p", "h", "p">>,
     <<"x", "s", "u", "p", "p", "o", "r", "t", "t", "i", "c", "k", "e", "t", "s", ".", "p", "h", "p">>}

\* No query, ?foo=1 and ?a/b.
Queries ==
    {<<>>, <<"?", "f", "o", "o", "=", "1">>, <<"?", "a", "/", "b">>}

\* protocol://domain/directory/page?query, the directory and its '/' left
\* out when there is none.
Compose(protocol, domain, directory, page, query) ==
    protocol \o <<":", "/", "/">> \o domain \o <<"/">>
    \o (IF directory = <<>> THEN <<>> ELSE directory \o <<"/">>) \o page \o query

\* The urls typed into the url input or handed to validateUrl: every
\* composition with the protocol http, two with https, the empty one and two
\* that are no urls, x and http://localhost/panel/ab.
UrlInputs ==
    {Compose(<<"h", "t", "t", "p">>, d, dir, page, q) :
        d \in Domains, dir \in Directories, page \in Pages, q \in Queries}
    \cup {Compose(p, d, <<"p", "a", "n", "e", "l">>, page, <<>>) :
            p \in Protocols, d \in Domains, page \in {<<"a", "b">>, expectedPage}}
    \cup {<<>>, <<"x">>,
          Compose(<<"h", "t", "t", "p">>, <<"l", "o", "c", "a", "l", "h", "o", "s", "t">>,
                  <<"p", "a", "n", "e", "l">>, <<"a", "b">>, <<>>)}

\* v-model="url": the url input is edited.
setUrl(u) ==
    /\ url' = u
    /\ thrown' = FALSE
    /\ Called("setUrl", "")
    /\ UNCHANGED <<script, error, options, results, urlWarning, nextUuid>>

\* @change="urlWarning = null" of the url input.
changeUrl ==
    /\ urlWarning' = Null
    /\ thrown' = FALSE
    /\ Called("changeUrl", "")
    /\ UNCHANGED <<script, error, options, results, url, nextUuid>>

\* @blur="validateUrl()" of the url input.
blurUrl == validateUrl(Null, FALSE)

\* The Attempt To Fix button, shown while the warning holds a fix:
\* validateUrl(urlWarning.fix, true).
attemptFix ==
    /\ urlWarning # Null
    /\ Truthy(urlWarning[2].fix)
    /\ validateUrl(urlWarning[2].fix, TRUE)

NextUrl ==
    \/ \E u \in UrlInputs : setUrl(u)
    \/ changeUrl
    \/ blurUrl
    \/ attemptFix
    \/ \E u \in {<<>>, GoodUrl, BadUrl} : validateUrl(Str(u), FALSE)
    \/ \E u \in UrlInputs : validateUrl(Str(u), TRUE)

SpecUrl == Init /\ [][NextUrl]_vars

---------------------------------------------------------------------------
(* The page as the user drives it: an edit of the script textbox is        *)
(* followed by its change event before any button can be clicked, and the  *)
(* Go! button is disabled while the script or the url is empty.            *)

\* The textbox is edited to hold s and loses the focus: v-model="script",
\* then @change="updateScript()".
changeScript(s) ==
    LET newUrl == URL_SCRIPT_REGEX(s)
        r == ValidateOutcome(newUrl, FALSE, url)
    IN  /\ script' = s
        /\ IF Truthy(newUrl)
           THEN url' = r.url /\ urlWarning' = r.urlWarning
           ELSE UNCHANGED <<url, urlWarning>>
        /\ error' = Null
        /\ results' = Null
        /\ options' = Null
        /\ thrown' = FALSE
        /\ Called("updateScript", "change")
        /\ UNCHANGED nextUuid

\* The textbox is also given records that carry a uuid, and a text without
\* options block.
NextPage ==
    \/ \E s \in ScriptInputs \cup {Script(GoodUrl, LiteralSameUuid), <<"x">>} :
          changeScript(s)
    \/ defaultScript
    \/ updateScript(TRUE)
    \/ script # <<>> /\ url # <<>> /\ parse
    \/ newOption
    \/ \E i \in Positions(options[2]) : deleteOption(i)
    \/ \E i \in Positions(options[2]) : clone(i)
    \/ \E i \in Positions(options[2]), d \in Directions : reorder(i, d)

SpecPage == Init /\ [][NextPage]_vars

---------------------------------------------------------------------------
(* What the claims speak of. *)

\* A list without its orders: the options and their sequence.
WithoutIndex(list) == [n \in 1..Len(list) |-> [list[n] EXCEPT !.index = Undef]]

\* A list without the entry at 1-based position n.
RemoveAt(list, n) == SubSeq(list, 1, n - 1) \o SubSeq(list, n + 1, Len(list))

\* Every option's order is its position in the list, counted from 1.
Renumbered(list) == \A n \in 1..Len(list) : list[n].index = Num(n)

\* The operations of the list that the renumbering pass is said to follow.
ListOperations == {"parse", "newOption", "deleteOption", "clone", "reorder"}

---------------------------------------------------------------------------
(* C1: after any sequence of parse, newOption, deleteOption, clone and     *)
(* reorder, once the last of them has completed, the option at position i  *)
(* (from 0) has order i + 1.                                               *)
C1_OrdersFollowPositions ==
    (last.op \in ListOperations /\ HasList) => Renumbered(options[2])

(* C3: when parse fails to parse the extracted literal, the error message  *)
(* carries the parser's message and the option list is exactly what it was *)
(* before the call.                                                        *)
C3_FailedParseKeepsList ==
    [][(last'.op = "parse" /\ parse /\ ~JSONParse(RawOptions(script)).ok) =>
          /\ options' = options
          /\ error' = Str(ErrorPrefix \o SyntaxMessage(JSONParse(RawOptions(script)).next))
      ]_vars

\* A failed parse has left a list of two options in place and set the error.
C3_Witness ==
    /\ last = [op |-> "parse", d |-> "error"]
    /\ HasList /\ Len(options[2]) = 2
    /\ error # Null

(* C4: parse ends either with the complete, renumbered list or with an     *)
(* error reported and the list unchanged; it never ends with an unhandled  *)
(* failure or a partially built list.                                      *)
C4_ParseEndsCleanly ==
    last.op = "parse" =>
        /\ ~thrown
        /\ \/ last.d = "error" /\ error # Null
           \/ last.d = "ok" /\ HasList /\ Renumbered(options[2])

(* C8: reorder(index, 'jump') takes the option's order minus 1 as target   *)
(* and leaves the sequence of options as it is when that target equals     *)
(* index, is negative (an order of 0) or is at least the list length.      *)
C8_JumpOutOfRangeIsNoOp ==
    [][\A i \in Positions(options[2]) :
          LET target == options[2][i + 1].index[2] - 1
          IN  (/\ reorder(i, "jump")
               /\ (target = i \/ target < 0 \/ target >= Len(options[2])))
              => WithoutIndex(options'[2]) = WithoutIndex(options[2])
      ]_vars

(* C9: reorder(index, 'jump') on an option whose order is k, 1 <= k <= N   *)
(* and k - 1 # index, leaves that option at position k - 1 (from 0), keeps *)
(* the other options in their relative order and renumbers every order.    *)
C9_JumpMovesToOrder ==
    [][\A i \in Positions(options[2]) :
          LET k == options[2][i + 1].index[2]
          IN  (/\ reorder(i, "jump")
               /\ 1 <= k /\ k <= Len(options[2]) /\ k - 1 # i)
              => /\ Len(options'[2]) = Len(options[2])
                 /\ WithoutIndex(options'[2])[k] = WithoutIndex(options[2])[i + 1]
                 /\ RemoveAt(WithoutIndex(options'[2]), k)
                        = RemoveAt(WithoutIndex(options[2]), i + 1)
                 /\ Renumbered(options'[2])
      ]_vars

\* A jump has moved an option of a list of three: the one that was created
\* last stands first.
C9_Witness ==
    /\ last = [op |-> "reorder", d |-> "jump"]
    /\ HasList /\ Len(options[2]) = 3
    /\ options[2][1].uuid = Uuid(3)
    /\ options[2][2].uuid = Uuid(1)
    /\ options[2][3].uuid = Uuid(2)

(* C10: deleteOption(index) removes exactly the option at index when       *)
(* 0 <= index < N and keeps the others in order; for every other index,    *)
(* the negative ones included, it leaves the list as it is.                *)
C10_DeleteOnlyInRange ==
    [][\A i \in Indexes(options[2]) :
          deleteOption(i) =>
              WithoutIndex(options'[2])
                  = IF 0 <= i /\ i < Len(options[2])
                    THEN RemoveAt(WithoutIndex(options[2]), i + 1)
                    ELSE WithoutIndex(options[2])
      ]_vars

(* C11: clone(index) on a list of length N, 0 <= index < N, gives a list   *)
(* of length N + 1: the positions up to index are unchanged, position      *)
(* index + 1 holds a copy of the option at index with the same type, id,   *)
(* text, name and colour and an identifier no option of the list had, and  *)
(* the options that followed index come after it, shifted by one.          *)
C11_CloneInsertsCopy ==
    [][\A i \in Positions(options[2]) :
          (last'.op = "clone" /\ clone(i)) =>
              LET old == WithoutIndex(options[2])
                  new == WithoutIndex(options'[2])
              IN  /\ Len(new) = Len(old) + 1
                  /\ SubSeq(new, 1, i + 1) = SubSeq(old, 1, i + 1)
                  /\ [new[i + 2] EXCEPT !.uuid = Undef] = [old[i + 1] EXCEPT !.uuid = Undef]
                  /\ \A n \in 1..Len(old) : old[n].uuid # new[i + 2].uuid
                  /\ SubSeq(new, i + 3, Len(new)) = SubSeq(old, i + 2, Len(old))
      ]_vars

\* The first of two options was cloned: the copy stands between them, with
\* the name and the colour of the first and the third identifier.
C11_Witness ==
    /\ last = [op |-> "clone", d |-> ""]
    /\ HasList /\ Len(options[2]) = 3
    /\ options[2][1].uuid = Uuid(1)
    /\ options[2][2].uuid = Uuid(3)
    /\ options[2][3].uuid = Uuid(2)
    /\ options[2][2].name = options[2][1].name
    /\ options[2][2].colour = options[2][1].colour
    /\ options[2][2].name # options[2][3].name

(* C12: reorder(index, 'up') exchanges the options at index and index - 1  *)
(* and leaves the others where they are, and changes nothing when index is *)
(* 0; reorder(index, 'down') exchanges the options at index and index + 1, *)
(* and changes nothing when index is the last position. The list after the *)
(* move holds the options of the list before it, each once.                *)
C12_UpDownSwapNeighbours ==
    [][\A i \in Positions(options[2]), d \in {"up", "down"} :
          (last'.op = "reorder" /\ reorder(i, d)) =>
              LET old == WithoutIndex(options[2])
                  new == WithoutIndex(options'[2])
                  j == IF d = "up" THEN i - 1 ELSE i + 1
              IN  /\ Len(new) = Len(old)
                  /\ IF j \in Positions(options[2])
                     THEN /\ new[i + 1] = old[j + 1]
                          /\ new[j + 1] = old[i + 1]
                          /\ \A n \in 1..Len(old) : n \notin {i + 1, j + 1} => new[n] = old[n]
                     ELSE options' = options
                  /\ \A n \in 1..Len(old) :
                        Cardinality({m \in 1..Len(new) : new[m] = old[n]})
                            = Cardinality({m \in 1..Len(old) : old[m] = old[n]})
      ]_vars

\* The second of two options was moved up: it stands first.
C12_Witness ==
    /\ last = [op |-> "reorder", d |-> "up"]
    /\ HasList /\ Len(options[2]) = 2
    /\ options[2][1].uuid = Uuid(2)
    /\ options[2][2].uuid = Uuid(1)

(* C13: in every option list no two options have the same uuid, the        *)
(* generator never giving a value twice: parse, newOption and clone give   *)
(* each new option an identifier no other option of the list has, and      *)
(* deleteOption, reorder and updateIndexes change no identifier.           *)
C13_UuidsDistinct ==
    HasList =>
        \A m, n \in 1..Len(options[2]) :
            m # n => options[2][m].uuid # options[2][n].uuid

(* C14: parse on a script in which the pattern of the options block does   *)
(* not match sets the option list to the empty list and reports no error:  *)
(* the call ends without a failure and leaves the error as it was.         *)
C14_NoAnchorGivesEmptyList ==
    [][(last'.op = "parse" /\ parse /\ OPTIONS_REGEX(script) = Undef) =>
          /\ options' = Arr(<<>>)
          /\ error' = error
          /\ ~thrown'
          /\ last'.d = "ok"
      ]_vars

\* After other scripts were parsed, parse on the script without options
\* block has set the list to the empty one, and no error is shown.
C14_Witness ==
    /\ last = [op |-> "parse", d |-> "ok"]
    /\ script = <<"x">>
    /\ options = Arr(<<>>)
    /\ error = Null
    /\ nextUuid > 0

---------------------------------------------------------------------------
(* What the claims about the codec speak of. *)

\* The fields of a list that a script carries, and their order.
Content(list) == [n \in 1..Len(list) |-> [list[n] EXCEPT !.uuid = Undef]]

\* A string or absent.
StringOrAbsent(x) == x[1] \in {"string", "undefined"}

\* A list of records whose fields are strings where they are present.
WellFormed(list) ==
    \A n \in 1..Len(list) :
        /\ StringOrAbsent(list[n].id) /\ StringOrAbsent(list[n].text)
        /\ StringOrAbsent(list[n].name) /\ StringOrAbsent(list[n].colour)
        /\ list[n].type[1] = "string"

\* A colour with zeros appended up to '#' and six hexadecimal digits.
SixDigits(c) == c \o [k \in 1..(7 - Len(c)) |-> "0"]

(* C2: for every list L that parse produces, parsing the script that       *)
(* generate builds from L gives a list equal to L in type, id, text, name, *)
(* colour and order, whatever quotes, backslashes or newlines the texts    *)
(* and names hold.                                                         *)
C2_RoundTrip ==
    (last = [op |-> "parse", d |-> "ok"] /\ WellFormed(options[2])) =>
        LET again == ParseOutcome(GeneratedScript(options[2], url), options, nextUuid)
        IN  /\ ~GenerateThrows(options[2])
            /\ again.kind = "ok"
            /\ Content(again.options[2]) = Content(options[2])

(* C7: parse gives an option whose colour starts with '#' and has fewer    *)
(* than six hexadecimal digits the colour with zeros appended up to six    *)
(* digits, and leaves a colour of six digits as it is.                     *)
C7_ColourPaddedToSixDigits ==
    last = [op |-> "parse", d |-> "ok"] =>
        LET given == JSONParse(RawOptions(script)).val[2]
        IN  \A n \in 1..Len(given) :
                LET c == Field(given[n], KeyColour)
                IN  (/\ c[1] = "string"
                     /\ StartsWith(c[2], <<"#">>)
                     /\ Len(c[2]) <= 7)
                    => options[2][n].colour = Str(SixDigits(c[2]))

---------------------------------------------------------------------------
(* What the claims about the url speak of. *)

\* The directories of at least 3 characters.
LongDirectories == {dir \in Directories : Len(dir) >= 3}

\* The queries that hold no '/'.
PlainQueries == {q \in Queries : \A n \in 1..Len(q) : q[n] # "/"}

\* The pages of letters, digits, '.' and '*' that neither start nor end
\* with the expected page.
OtherPages ==
    {page \in Pages :
        /\ \A n \in 1..Len(page) : page[n] \in PageChars
        /\ ~StartsWith(page, expectedPage)
        /\ ~EndsWith(page, expectedPage)}

\* http://example.com/panel/ticketsystem.php
TicketSystemUrl ==
    Compose(<<"h", "t", "t", "p">>,
            <<"e", "x", "a", "m", "p", "l", "e", ".", "c", "o", "m">>,
            <<"p", "a", "n", "e", "l">>,
            <<"t", "i", "c", "k", "e", "t", "s", "y", "s", "t", "e", "m", ".", "p", "h", "p">>,
            <<>>)

C6_RetryNeverRepairs ==
    last = [op |-> "validateUrl", d |-> "retry"] =>
        /\ url = StripQuery(url)
        /\ urlWarning = Null <=> EndsWith(url, expectedPage)
        /\ urlWarning # Null => urlWarning[2].fix = Undef

\* validateUrl was called with attemptedFix on
\* http://example.com/panel/ticketsystem.php, the fix offered for that url
\* with a query: it is the url, and the warning that remains offers no fix.
C6_Witness ==
    /\ last = [op |-> "validateUrl", d |-> "retry"]
    /\ url = TicketSystemUrl
    /\ urlWarning = Warning(FormatMessage, Undef)

(* C15: validateUrl called with the empty string gives exactly the warning *)
(* {message: 'Please enter a url'}, without fix, whatever url the session  *)
(* holds, and repairs nothing.                                             *)
C15_EmptyUrlAsksForOne ==
    [][\A b \in BOOLEAN :
          (last'.op = "validateUrl" /\ validateUrl(Str(<<>>), b)) =>
              /\ urlWarning' = Warning(EmptyMessage, Undef)
              /\ url' = url
      ]_vars

\* A url up to and including its first '/supporttickets.php', or the whole
\* of it when it holds none.
UpToPage(value) ==
    LET p == <<"/">> \o expectedPage
        starts == {i \in 1..Len(value) : MatchAt(value, i, p)}
    IN  IF starts = {} THEN value
        ELSE SubSeq(value, 1, (CHOOSE i \in starts : \A j \in starts : i <= j) + Len(p) - 1)

(* C16: validateUrl first removes what follows the page segment            *)
(* '/supporttickets.php' of the url, keeping the text up to and including  *)
(* the page, and gives null exactly when the resulting url ends with       *)
(* 'supporttickets.php'; every other url that is not empty gets a warning. *)
C16_StripsAfterPageThenChecks ==
    [][\A u \in UrlInputs \ {<<>>}, b \in BOOLEAN :
          (last'.op = "validateUrl" /\ validateUrl(Str(u), b)) =>
              /\ url' = UpToPage(u)
              /\ urlWarning' = Null <=> EndsWith(UpToPage(u), expectedPage)
              /\ urlWarning' # Null => urlWarning'[1] = "warning"
      ]_vars

\* The directory of the fix for a url whose directory is dir: urlRegex
\* captures it with its '/', or captures nothing when there is none.
FixDirectory(dir) ==
    IF dir = <<>> \/ Len(dir) + 1 < 3 THEN DefaultDirectory ELSE dir

\* The page of the fix for a url whose page is page: urlRegex captures its
\* leading letters, digits, '.' and '*'.
FixPage(page) ==
    IF Len(PageOf(page)) < 3 THEN expectedPage ELSE PageOf(page)

\* The urls of the model that urlRegex does not match anywhere.
Unmatched == {u \in UrlInputs \ {<<>>} : \A p \in Protocols : ~StartsWith(u, p)}
               \cup {u \in UrlInputs : \E n \in 1..Len(u) : MatchAt(u, n, <<"l", "o", "c", "a", "l", "h", "o", "s", "t">>)}

(* C17: validateUrl without attemptedFix on a url that does not end with   *)
(* the expected page gives a fix exactly when the url decomposes into a    *)
(* protocol and a domain. The fix is protocol://domain/directories/page,   *)
(* the directories being 'admin' when the captured ones are absent or      *)
(* shorter than 3 characters and else the captured ones without their      *)
(* trailing slash, the page being 'supporttickets.php' when the captured   *)
(* one is absent or shorter than 3 characters; no fix when protocol or     *)
(* domain cannot be resolved.                                              *)
C17_FixFromCapturedParts ==
    (last = [op |-> "validateUrl", d |-> "first"] /\ ~EndsWith(url, expectedPage)) =>
        /\ \A p \in Protocols, d \in Domains, dir \in Directories,
              page \in Pages, q \in PlainQueries :
                url = Compose(p, d, dir, page, q)
                => urlWarning =
                      Warning(FormatMessage,
                              Str(p \o <<":", "/", "/">> \o d \o <<"/">>
                                  \o FixDirectory(dir) \o <<"/">> \o FixPage(page)))
        /\ url \in Unmatched => urlWarning = Warning(FormatMessage, Undef)

\* validateUrl has offered http://example.com/admin/supporttickets.php for
\* http://example.com/a/ab: both defaults were taken.
C17_Witness ==
    /\ last = [op |-> "validateUrl", d |-> "first"]
    /\ url = Compose(<<"h", "t", "t", "p">>, <<"e", "x", "a", "m", "p", "l", "e", ".", "c", "o", "m">>, <<"a">>, <<"a", "b">>, <<>>)
    /\ urlWarning = Warning(FormatMessage,
                            Str(Compose(<<"h", "t", "t", "p">>, <<"e", "x", "a", "m", "p", "l", "e", ".", "c", "o", "m">>,
                                        DefaultDirectory, expectedPage, <<>>)))

---------------------------------------------------------------------------
(* C18: generate gives the template with every url placeholder replaced by *)
(* the url followed by '*' and every options placeholder replaced by the   *)
(* escaped serialised list, and nothing else changed, whatever the url and *)
(* the options hold, placeholder tokens and '$' characters included.       *)
C18_GenerateFillsTemplate ==
    (last.op = "generate" /\ ~thrown) =>
        results =
            Str(Script(url,
                       EscapeOptions(JSONStringify(
                           Arr([n \in 1..Len(options[2]) |-> FormatOption(options[2][n])])))))

\* The serialised list generate escapes: JSON.stringify(formattedOptions).
Serialized(list) ==
    JSONStringify(Arr([n \in 1..Len(list) |-> FormatOption(list[n])]))

\* The characters that delimit the options block in the template: the
\* quote of JSON.parse('...') and the two markers around the block.
Delimiters == {"'", OptionsOpen, OptionsClose}

(* C19: for every serialised string s that holds no delimiter character of *)
(* the template, the escaping of generate (' to \' and \" to \\") followed *)
(* by the unescaping of parse (\' to ', \\" to \" and \\n to \n) gives s    *)
(* back.                                                                   *)
C19_UnescapeInvertsEscape ==
    (last.op = "generate" /\ ~thrown) =>
        LET s == Serialized(options[2])
        IN  (\A n \in 1..Len(s) : s[n] \notin Delimiters)
            => UnescapeOptions(EscapeOptions(s)) = s

---------------------------------------------------------------------------
(* C20: over any sequence of events of the page (edits of the script, the  *)
(* Default button, Clear, Go! and the edits of the list) an error message  *)
(* is shown only while the latest parse failed: whenever parse succeeds    *)
(* and sets the option list, the error is null.                            *)
C20_ErrorOnlyAfterFailedParse ==
    last = [op |-> "parse", d |-> "ok"] => error = Null

=============================================================================
